---- MODULE Spec2Model ----
(***************************************************************************)
(* Model of pkg/server/policy.go: the assume-role policies of the server   *)
(* (RequestingAnnotatedRolePolicy, NamespacePermittedRoleNamePolicy) and   *)
(* the CompositeAssumeRolePolicy that evaluates them in order.             *)
(*                                                                         *)
(* Go strings are sequences of one-character strings, so that formatting   *)
(* (fmt.Sprintf), concatenation ("^" + expression + "$") and regular       *)
(* expression matching are computed rather than assumed.                   *)
(***************************************************************************)
EXTENDS Integers, Sequences, FiniteSets, TLC

VARIABLES policies, ctx, role, pod, namespace, idx, calls, ret, last, pc, runs, prev

vars == <<policies, ctx, role, pod, namespace, idx, calls, ret, last, pc, runs, prev>>

(* ------------------------------ bounds -------------------------------- *)

\* longest policy list handed to Policies(...)
MaxPolicies == 2

\* number of times the composite is rebuilt over a reordered list
MaxRuns == 2

(* ------------------------------ strings ------------------------------- *)

EmptyString == <<>>

\* strings.Contains
Contains(s, sub) ==
    \E i \in 0..(Len(s) - Len(sub)) : SubSeq(s, i + 1, i + Len(sub)) = sub

Min(S) == CHOOSE x \in S : \A y \in S : x <= y

(* ------------------------------ errors -------------------------------- *)

\* the nil error
NoErr == "nil"

ErrResolve == "role cannot be resolved"
ErrNamespace == "namespace lookup failed"
ErrCanceled == "context canceled"
ErrRegexp == "error parsing regexp"

(* ------------------------ sts.ARNResolver.Resolve --------------------- *)

\* the role prefix of the resolver ("arn:aws:iam::<account>:role/"), one character here
ArnPrefix == <<":">>

\* Resolve: a short name is qualified with the prefix, a fully-qualified
\* identifier is kept; the empty role string is malformed.
Resolve(r) ==
    IF r = EmptyString
    THEN [Name |-> EmptyString, ARN |-> EmptyString, err |-> ErrResolve]
    ELSE IF Head(r) = Head(ArnPrefix)
         THEN [Name |-> Tail(r), ARN |-> r, err |-> NoErr]
         ELSE [Name |-> r, ARN |-> ArnPrefix \o r, err |-> NoErr]

\* ResolvedRole.Equals: identities are compared by their canonical identifier
Equals(a, b) == a.ARN = b.ARN

(* ------------------------------ k8s ----------------------------------- *)

\* k8s.PodRole(pod): the pod's role annotation, "" when it has none
PodRole(p) == p.role

\* a namespace object either does not exist, or carries an annotation map in
\* which the permitted key is absent or holds an expression
NoNamespace == [exists |-> FALSE, annotated |-> FALSE, permitted |-> EmptyString]

\* NamespaceFinder.FindNamespace(ctx, name): fails on a cancelled context and
\* on a namespace that cannot be found
FindNamespace(c, ns) ==
    IF c.cancelled THEN [ns |-> NoNamespace, err |-> ErrCanceled]
    ELSE IF ~ns.exists THEN [ns |-> NoNamespace, err |-> ErrNamespace]
    ELSE [ns |-> ns, err |-> NoErr]

\* ns.GetAnnotations()[k8s.AnnotationPermittedKey]: a missing key reads as ""
PermittedAnnotation(ns) == IF ns.annotated THEN ns.permitted ELSE EmptyString

(* ------------------------------ regexp -------------------------------- *)

\* nesting depth of e after its first k characters
RECURSIVE Depth(_, _)
Depth(e, k) ==
    IF k = 0 THEN 0
    ELSE Depth(e, k - 1) + (IF e[k] = "(" THEN 1 ELSE IF e[k] = ")" THEN -1 ELSE 0)

\* regexp.Compile: the expressions of the model fail to parse exactly when
\* their parentheses do not balance ("missing closing )", "unexpected )")
Compile(e) ==
    IF /\ \A k \in 1..Len(e) : Depth(e, k) >= 0
       /\ Depth(e, Len(e)) = 0
    THEN [re |-> e, err |-> NoErr]
    ELSE [re |-> EmptyString, err |-> ErrRegexp]

\* positions of the alternation bars of e outside every group
TopLevelBars(e) == {k \in 1..Len(e) : e[k] = "|" /\ Depth(e, k) = 0}

\* index of the parenthesis closing the group that e opens with
CloseIndex(e) == Min({m \in 1..Len(e) : Depth(e, m) = 0})

\* the positions where a match of e that starts at position i of s can end:
\* alternation binds weakest, then concatenation; ^ and $ assert the start
\* and the end of the text, . is any character
RECURSIVE MatchEnds(_, _, _)
MatchEnds(e, s, i) ==
    IF TopLevelBars(e) # {}
    THEN LET k == Min(TopLevelBars(e))
         IN MatchEnds(SubSeq(e, 1, k - 1), s, i) \cup MatchEnds(SubSeq(e, k + 1, Len(e)), s, i)
    ELSE IF e = <<>> THEN {i}
    ELSE LET h == Head(e)
             rest == Tail(e)
         IN CASE h = "^" -> IF i = 0 THEN MatchEnds(rest, s, i) ELSE {}
              [] h = "$" -> IF i = Len(s) THEN MatchEnds(rest, s, i) ELSE {}
              [] h = "(" ->
                   LET m == CloseIndex(e)
                   IN UNION {MatchEnds(SubSeq(e, m + 1, Len(e)), s, j) :
                                j \in MatchEnds(SubSeq(e, 2, m - 1), s, i)}
              [] h = "." -> IF i < Len(s) THEN MatchEnds(rest, s, i + 1) ELSE {}
              [] OTHER -> IF i < Len(s) /\ s[i + 1] = h
                          THEN MatchEnds(rest, s, i + 1) ELSE {}

\* Regexp.MatchString: the expression matches somewhere in s
MatchString(re, s) == \E i \in 0..Len(s) : MatchEnds(re, s, i) # {}

(* ------------------------------ Decision ------------------------------ *)

\* the nil Decision returned next to an error
NilDecision == [kind |-> "nil"]

allowed == [kind |-> "allowed"]

forbidden(requested, annotated) ==
    [kind |-> "forbidden", requested |-> requested, annotated |-> annotated]

namespacePolicyForbidden(expression, r) ==
    [kind |-> "namespacePolicyForbidden", expression |-> expression, role |-> r]

IsAllowed(d) == d.kind = "allowed"

TxtRequested == <<"r", "e", "q", "u", "e", "s", "t", "e", "d", " ", "'">>
TxtButAnnotated == <<"'", " ", "b", "u", "t", " ", "a", "n", "n", "o", "t", "a", "t", "e", "d", " ", "w", "i", "t", "h", " ", "'">>
TxtForbidden == <<"'", ",", " ", "f", "o", "r", "b", "i", "d", "d", "e", "n">>
TxtNamespaceExpr == <<"n", "a", "m", "e", "s", "p", "a", "c", "e", " ", "p", "o", "l", "i", "c", "y", " ", "e", "x", "p", "r", "e", "s", "s", "i", "o", "n", " ", "'">>
TxtForbidsRole == <<"'", " ", "f", "o", "r", "b", "i", "d", "s", " ", "r", "o", "l", "e", " ", "'">>
TxtQuote == <<"'">>
TxtEmpty == <<"(", "e", "m", "p", "t", "y", ")">>

\* variant: every Decision explains itself with the empty string
ExplanationBlank(d) == EmptyString

\* Decision.Explanation of the three implementations
Explanation(d) ==
    CASE d.kind = "allowed" -> EmptyString
      [] d.kind = "forbidden" ->
           TxtRequested \o d.requested \o TxtButAnnotated \o d.annotated \o TxtForbidden
      [] d.kind = "namespacePolicyForbidden" ->
           TxtNamespaceExpr \o d.expression \o TxtForbidsRole \o d.role \o TxtQuote

\* what IsAllowedAssumeRole returns: (Decision, error)
Return(d, e) == [decision |-> d, err |-> e]

(* --------------------- RequestingAnnotatedRolePolicy ------------------- *)

\* variant: the role strings are compared as written, not as identities
RequestingAnnotatedRawCompare(c, r, p) ==
    IF Resolve(PodRole(p)).err # NoErr THEN Return(NilDecision, Resolve(PodRole(p)).err)
    ELSE IF Resolve(r).err # NoErr THEN Return(NilDecision, Resolve(r).err)
    ELSE IF PodRole(p) = r THEN Return(allowed, NoErr)
    ELSE Return(forbidden(r, Resolve(PodRole(p)).Name), NoErr)

RequestingAnnotatedIsAllowedAssumeRole(c, r, p) ==
    LET annotatedIdentiy == Resolve(PodRole(p))
        requestedIdentity == Resolve(r)
    IN IF annotatedIdentiy.err # NoErr THEN Return(NilDecision, annotatedIdentiy.err)
       ELSE IF requestedIdentity.err # NoErr THEN Return(NilDecision, requestedIdentity.err)
       ELSE IF Equals(annotatedIdentiy, requestedIdentity) THEN Return(allowed, NoErr)
       ELSE Return(forbidden(r, annotatedIdentiy.Name), NoErr)

(* -------------------- NamespacePermittedRoleNamePolicy ----------------- *)

\* the expression handed to regexp.Compile
CompiledExpression(strict, expression) ==
    IF strict THEN <<"^">> \o expression \o <<"$">> ELSE expression

\* variant: the empty expression is compiled and matched like any other
NamespacePermittedEmptyCompiled(strict, c, r, p, ns) ==
    LET requestedIdentity == Resolve(r)
        found == FindNamespace(c, ns)
        expression == PermittedAnnotation(found.ns)
        compiled == Compile(CompiledExpression(strict, expression))
    IN IF requestedIdentity.err # NoErr THEN Return(NilDecision, requestedIdentity.err)
       ELSE IF found.err # NoErr THEN Return(NilDecision, found.err)
       ELSE IF compiled.err # NoErr THEN Return(NilDecision, compiled.err)
       ELSE IF ~MatchString(compiled.re, requestedIdentity.ARN)
            THEN Return(namespacePolicyForbidden(expression, requestedIdentity.ARN), NoErr)
       ELSE Return(allowed, NoErr)

\* variant: an expression that does not compile denies
NamespacePermittedCompileDenies(strict, c, r, p, ns) ==
    LET requestedIdentity == Resolve(r)
        found == FindNamespace(c, ns)
        expression == PermittedAnnotation(found.ns)
        compiled == Compile(CompiledExpression(strict, expression))
    IN IF requestedIdentity.err # NoErr THEN Return(NilDecision, requestedIdentity.err)
       ELSE IF found.err # NoErr THEN Return(NilDecision, found.err)
       ELSE IF expression = EmptyString
            THEN Return(namespacePolicyForbidden(TxtEmpty, r), NoErr)
       ELSE IF compiled.err # NoErr
            THEN Return(namespacePolicyForbidden(expression, requestedIdentity.ARN), NoErr)
       ELSE IF ~MatchString(compiled.re, requestedIdentity.ARN)
            THEN Return(namespacePolicyForbidden(expression, requestedIdentity.ARN), NoErr)
       ELSE Return(allowed, NoErr)

NamespacePermittedIsAllowedAssumeRole(strict, c, r, p, ns) ==
    LET requestedIdentity == Resolve(r)
        found == FindNamespace(c, ns)
        expression == PermittedAnnotation(found.ns)
        compiled == Compile(CompiledExpression(strict, expression))
    IN IF requestedIdentity.err # NoErr THEN Return(NilDecision, requestedIdentity.err)
       ELSE IF found.err # NoErr THEN Return(NilDecision, found.err)
       ELSE IF expression = EmptyString
            THEN Return(namespacePolicyForbidden(TxtEmpty, r), NoErr)
       ELSE IF compiled.err # NoErr THEN Return(NilDecision, compiled.err)
       ELSE IF ~MatchString(compiled.re, requestedIdentity.ARN)
            THEN Return(namespacePolicyForbidden(expression, requestedIdentity.ARN), NoErr)
       ELSE Return(allowed, NoErr)

(* ------------------------- AssumeRolePolicy --------------------------- *)

RequestingAnnotatedRolePolicy == [kind |-> "annotated", strict |-> FALSE]

NamespacePermittedRoleNamePolicy(strictRegexp) == [kind |-> "namespace", strict |-> strictRegexp]

NoPolicy == [kind |-> "none", strict |-> FALSE]

\* policy.IsAllowedAssumeRole(ctx, role, pod) through the AssumeRolePolicy interface
IsAllowedAssumeRole(p, c, r, pd, ns) ==
    IF p.kind = "annotated"
    THEN RequestingAnnotatedIsAllowedAssumeRole(c, r, pd)
    ELSE NamespacePermittedIsAllowedAssumeRole(p.strict, c, r, pd, ns)

(* ------------------------------ inputs --------------------------------- *)

PolicySet ==
    {RequestingAnnotatedRolePolicy,
     NamespacePermittedRoleNamePolicy(TRUE),
     NamespacePermittedRoleNamePolicy(FALSE)}

PolicyLists == UNION {[1..n -> PolicySet] : n \in 0..MaxPolicies}

\* requested role strings: malformed, short names, fully-qualified identifiers
Roles == {EmptyString, <<"a">>, <<"b">>, <<":", "a">>, <<":", "a", "b">>, <<":", ":", "a">>}

\* role annotations of the pod ("" when the pod has none)
PodRoles == {EmptyString, <<"a">>, <<":", "a">>, <<"b">>}

\* permission expressions of the namespace
Expressions ==
    {EmptyString,
     <<":", "a">>,
     <<"a">>,
     <<":", "a", "|", ":", "b">>,
     <<"(", ":", "a", "|", ":", "b", ")">>,
     <<"(", ":", "a">>}

Namespaces ==
    {NoNamespace, [exists |-> TRUE, annotated |-> FALSE, permitted |-> EmptyString]}
    \cup {[exists |-> TRUE, annotated |-> TRUE, permitted |-> e] : e \in Expressions}

\* the orderings of a policy list
Reorderings(ps) ==
    {q \in [1..Len(ps) -> PolicySet] :
        \E f \in [1..Len(ps) -> 1..Len(ps)] :
            /\ \A i, j \in 1..Len(ps) : f[i] = f[j] => i = j
            /\ \A i \in 1..Len(ps) : q[i] = ps[f[i]]}

(* --------------------- CompositeAssumeRolePolicy ----------------------- *)

Init ==
    /\ policies \in PolicyLists
    /\ ctx \in [cancelled : BOOLEAN]
    /\ role \in Roles
    /\ pod \in [role : PodRoles, namespace : {"default"}]
    /\ namespace \in Namespaces
    /\ idx = 1
    /\ calls = <<>>
    /\ ret = Return(NilDecision, NoErr)
    /\ last = [index |-> 0, policy |-> NoPolicy, out |-> Return(NilDecision, NoErr)]
    /\ pc = "loop"
    /\ runs = 1
    /\ prev = [set |-> FALSE, allows |-> FALSE]

\* the policy the loop is at, invoked with the evaluation's (ctx, role, pod)
Current == IsAllowedAssumeRole(policies[idx], ctx, role, pod, namespace)

Called == /\ calls' = Append(calls, idx)
          /\ last' = [index |-> idx, policy |-> policies[idx], out |-> Current]

\* variant: a policy's error is dropped and the loop moves on
InvokeErrorIgnored ==
    /\ pc = "loop" /\ idx <= Len(policies)
    /\ Current.err # NoErr
    /\ Called
    /\ idx' = idx + 1
    /\ UNCHANGED <<policies, ctx, role, pod, namespace, ret, pc, runs, prev>>

\* if err != nil { return nil, err }
InvokeError ==
    /\ pc = "loop" /\ idx <= Len(policies)
    /\ Current.err # NoErr
    /\ Called
    /\ ret' = Return(NilDecision, Current.err)
    /\ pc' = "done"
    /\ UNCHANGED <<policies, ctx, role, pod, namespace, idx, runs, prev>>

\* variant: a denial ends the loop with Allowed
InvokeDeniedAllows ==
    /\ pc = "loop" /\ idx <= Len(policies)
    /\ Current.err = NoErr /\ ~IsAllowed(Current.decision)
    /\ Called
    /\ ret' = Return(allowed, NoErr)
    /\ pc' = "done"
    /\ UNCHANGED <<policies, ctx, role, pod, namespace, idx, runs, prev>>

\* variant: a denial is kept but the loop moves on to the next policy
InvokeDeniedContinues ==
    /\ pc = "loop" /\ idx <= Len(policies)
    /\ Current.err = NoErr /\ ~IsAllowed(Current.decision)
    /\ Called
    /\ ret' = Return(Current.decision, NoErr)
    /\ idx' = idx + 1
    /\ pc' = IF idx = Len(policies) THEN "done" ELSE "loop"
    /\ UNCHANGED <<policies, ctx, role, pod, namespace, runs, prev>>

\* if !decision.IsAllowed() { return decision, nil }
InvokeDenied ==
    /\ pc = "loop" /\ idx <= Len(policies)
    /\ Current.err = NoErr /\ ~IsAllowed(Current.decision)
    /\ Called
    /\ ret' = Return(Current.decision, NoErr)
    /\ pc' = "done"
    /\ UNCHANGED <<policies, ctx, role, pod, namespace, idx, runs, prev>>

\* variant: the first policy that allows decides for the composite
InvokeAllowedReturns ==
    /\ pc = "loop" /\ idx <= Len(policies)
    /\ Current.err = NoErr /\ IsAllowed(Current.decision)
    /\ Called
    /\ ret' = Return(allowed, NoErr)
    /\ pc' = "done"
    /\ UNCHANGED <<policies, ctx, role, pod, namespace, idx, runs, prev>>

\* the policy allows: the loop moves on to the next policy
InvokeAllowed ==
    /\ pc = "loop" /\ idx <= Len(policies)
    /\ Current.err = NoErr /\ IsAllowed(Current.decision)
    /\ Called
    /\ idx' = idx + 1
    /\ UNCHANGED <<policies, ctx, role, pod, namespace, ret, pc, runs, prev>>

\* the loop is over: return &allowed{}, nil
ReturnAllowed ==
    /\ pc = "loop" /\ idx > Len(policies)
    /\ ret' = Return(allowed, NoErr)
    /\ pc' = "done"
    /\ UNCHANGED <<policies, ctx, role, pod, namespace, idx, calls, last, runs, prev>>

\* Policies(p...): a composite over the same policies in another order, which
\* is then evaluated on the same (ctx, role, pod) with the collaborators unchanged
Policies ==
    /\ pc = "done" /\ runs < MaxRuns
    /\ \E q \in Reorderings(policies) : policies' = q
    /\ prev' = [set |-> TRUE, allows |-> IsAllowed(ret.decision)]
    /\ idx' = 1
    /\ calls' = <<>>
    /\ ret' = Return(NilDecision, NoErr)
    /\ last' = [index |-> 0, policy |-> NoPolicy, out |-> Return(NilDecision, NoErr)]
    /\ pc' = "loop"
    /\ runs' = runs + 1
    /\ UNCHANGED <<ctx, role, pod, namespace>>

Next ==
    \/ InvokeError
    \/ InvokeDenied
    \/ InvokeAllowed
    \/ ReturnAllowed
    \/ Policies

Spec == Init /\ [][Next]_vars

(* ------------------------------ properties ----------------------------- *)

\* what member policy k returns for the evaluation's (ctx, role, pod)
Outcome(k) == IsAllowedAssumeRole(policies[k], ctx, role, pod, namespace)

Errors(out) == out.err # NoErr
Denies(out) == out.err = NoErr /\ out.decision.kind \in {"forbidden", "namespacePolicyForbidden"}
Allows(out) == out.err = NoErr /\ out.decision.kind = "allowed"

Members == 1..Len(policies)
Done == pc = "done"
Quoted(s) == TxtQuote \o s \o TxtQuote

\* C1 as stated: over a non-empty list the composite returns a non-allowing
\* Decision exactly when some member policy returns one for the same
\* (ctx, role, pod); over the empty list it returns Allowed with a nil error.
C1_DeniesIffSomeMemberDenies ==
    Done =>
        IF policies = <<>>
        THEN ret = Return(allowed, NoErr)
        ELSE Denies(ret) <=> \E k \in Members : Denies(Outcome(k))

\* C1 amended: the composite returns a non-allowing Decision exactly when some
\* member policy returns one and no policy before that member returns an
\* error; over the empty list it returns Allowed with a nil error.
C1_DeniesIffDenialBeforeAnyError ==
    Done =>
        IF policies = <<>>
        THEN ret = Return(allowed, NoErr)
        ELSE Denies(ret) <=>
                \E k \in Members :
                    /\ Denies(Outcome(k))
                    /\ \A j \in 1..(k - 1) : ~Errors(Outcome(j))

\* C1 witness: a finished evaluation of a two-policy list whose first member
\* errors and whose second would deny, and which did not return a denial
C1_Witness ==
    /\ Done /\ Len(policies) = 2
    /\ Errors(Outcome(1)) /\ Denies(Outcome(2))
    /\ ~Denies(ret)

\* C2 as stated: the composite returns the error of the first policy that
\* returns an error, with no Decision, and invokes no policy after that one.
C2_ReturnsFirstError ==
    (Done /\ \E k \in Members : Errors(Outcome(k))) =>
        LET f == Min({k \in Members : Errors(Outcome(k))})
        IN /\ ret = Return(NilDecision, Outcome(f).err)
           /\ \A n \in 1..Len(calls) : calls[n] <= f

\* C2 amended: when no policy before the first erroring policy returns a
\* non-allowing Decision, the composite returns that policy's error, with no
\* Decision, and invokes no policy after it.
C2_ReturnsFirstErrorUnlessDeniedBefore ==
    (Done /\ \E k \in Members : Errors(Outcome(k))) =>
        LET f == Min({k \in Members : Errors(Outcome(k))})
        IN (\A j \in 1..(f - 1) : ~Denies(Outcome(j))) =>
              /\ ret = Return(NilDecision, Outcome(f).err)
              /\ \A n \in 1..Len(calls) : calls[n] <= f
              /\ calls[Len(calls)] = f

\* C2 witness: the second policy of the list errored after the first allowed,
\* and the evaluation is over
C2_Witness ==
    /\ Done /\ Len(policies) = 2
    /\ Allows(Outcome(1)) /\ Errors(Outcome(2))
    /\ last.index = 2

\* C3: policies are invoked in configured order, each at most once; when a
\* member denies and every earlier member allowed, the composite returns that
\* member's Decision with a nil error and invokes nothing after it.
C3_FirstDenialReturned ==
    /\ \A n \in 1..Len(calls) : calls[n] = n
    /\ Done =>
          \A k \in Members :
              (Denies(Outcome(k)) /\ \A j \in 1..(k - 1) : Allows(Outcome(j))) =>
                  /\ ret = Return(Outcome(k).decision, NoErr)
                  /\ Explanation(ret.decision) = Explanation(Outcome(k).decision)
                  /\ Len(calls) = k

\* C3 witness: the first policy denied, a second policy is configured behind
\* it, and the evaluation is over
C3_Witness ==
    /\ Done /\ Len(policies) = 2
    /\ Denies(Outcome(1)) /\ Allows(Outcome(2))
    /\ calls = <<1>>

\* the expression as a whole matches the whole of s
FullMatch(expression, s) == Len(s) \in MatchEnds(expression, s, 0)

\* C4: in strict mode the namespace policy allows a role only when the
\* (non-empty, well-formed) permission expression matches the whole canonical
\* identifier; in non-strict mode it allows on a match anywhere.
C4_StrictIsFullMatch ==
    (/\ last.policy.kind = "namespace"
     /\ Allows(last.out)) =>
        LET expression == PermittedAnnotation(namespace)
            arn == Resolve(role).ARN
        IN IF last.policy.strict
           THEN FullMatch(expression, arn)
           ELSE MatchString(expression, arn)

\* C5 as stated: the annotation policy allows when the two role strings
\* resolve to equal identities, and otherwise denies with the explanation
\* "requested 'X' but annotated with 'Y', forbidden", X the requested role
\* string and Y the pod's annotated role string.
C5_ExplainsWithBothInputStrings ==
    (/\ last.policy.kind = "annotated"
     /\ ~Errors(Resolve(role)) /\ ~Errors(Resolve(PodRole(pod)))) =>
        IF Resolve(role).ARN = Resolve(PodRole(pod)).ARN
        THEN last.out = Return(allowed, NoErr)
        ELSE /\ Denies(last.out)
             /\ Explanation(last.out.decision) =
                   TxtRequested \o role \o TxtButAnnotated \o PodRole(pod) \o TxtForbidden

\* C5 amended: as C5, with Y the name of the identity that the pod's annotated
\* role string resolves to.
C5_ExplainsWithAnnotatedName ==
    (/\ last.policy.kind = "annotated"
     /\ ~Errors(Resolve(role)) /\ ~Errors(Resolve(PodRole(pod)))) =>
        IF Resolve(role).ARN = Resolve(PodRole(pod)).ARN
        THEN last.out = Return(allowed, NoErr)
        ELSE /\ Denies(last.out)
             /\ Explanation(last.out.decision) =
                   TxtRequested \o role \o TxtButAnnotated
                      \o Resolve(PodRole(pod)).Name \o TxtForbidden

\* C5 witness: the annotation policy allowed a short name requested against
\* its fully-qualified annotation
C5_Witness ==
    /\ last.policy.kind = "annotated"
    /\ role # PodRole(pod)
    /\ Allows(last.out)

\* C6 as stated: a namespace without permission annotation (absent or empty)
\* makes the namespace policy return Denied for every requested role, with an
\* explanation holding "(empty)" and the requested role.
C6_EmptyAnnotationAlwaysDenies ==
    (/\ last.policy.kind = "namespace"
     /\ namespace.exists /\ PermittedAnnotation(namespace) = EmptyString) =>
        /\ Denies(last.out)
        /\ Contains(Explanation(last.out.decision), Quoted(TxtEmpty))
        /\ Contains(Explanation(last.out.decision), Quoted(role))

\* C6 amended: the same, when the requested role resolves and the namespace
\* lookup succeeds.
C6_EmptyAnnotationDeniesOnceLookedUp ==
    (/\ last.policy.kind = "namespace"
     /\ namespace.exists /\ PermittedAnnotation(namespace) = EmptyString
     /\ ~Errors(Resolve(role)) /\ ~Errors(FindNamespace(ctx, namespace))) =>
        /\ Denies(last.out)
        /\ Contains(Explanation(last.out.decision), Quoted(TxtEmpty))
        /\ Contains(Explanation(last.out.decision), Quoted(role))
        /\ Explanation(last.out.decision) =
              TxtNamespaceExpr \o TxtEmpty \o TxtForbidsRole \o role \o TxtQuote

\* C6 witness: the strict namespace policy denied over a namespace whose
\* annotation map lacks the permitted key
C6_Witness ==
    /\ last.policy.kind = "namespace" /\ last.policy.strict
    /\ namespace.exists /\ ~namespace.annotated
    /\ Denies(last.out)

\* the error of the first collaborator step that fails in an invocation of
\* policy p, NoErr when none fails
CollaboratorFailure(p) ==
    IF p.kind = "annotated"
    THEN IF Errors(Resolve(PodRole(pod))) THEN Resolve(PodRole(pod)).err
         ELSE Resolve(role).err
    ELSE IF Errors(Resolve(role)) THEN Resolve(role).err
         ELSE IF Errors(FindNamespace(ctx, namespace)) THEN FindNamespace(ctx, namespace).err
         ELSE IF PermittedAnnotation(namespace) = EmptyString THEN NoErr
         ELSE Compile(CompiledExpression(p.strict, PermittedAnnotation(namespace))).err

\* C7: a failing identity resolution, namespace lookup or expression
\* compilation makes the policy, and the composite that invoked it, return
\* that error and no Decision; a member's denial comes back as that Decision,
\* and whoever returns a Decision returns a nil error.
C7_FailuresAreErrors ==
    /\ last.index # 0 =>
          /\ CollaboratorFailure(last.policy) # NoErr =>
                /\ last.out = Return(NilDecision, CollaboratorFailure(last.policy))
                /\ ret = last.out
          /\ last.out.decision # NilDecision => last.out.err = NoErr
          /\ Errors(last.out) => ret = Return(NilDecision, last.out.err)
          /\ Denies(last.out) => ret = Return(last.out.decision, NoErr)
    /\ ret.decision # NilDecision => ret.err = NoErr

\* C7 witness: an expression that does not compile made the namespace policy
\* and the composite return the compilation error
C7_Witness ==
    /\ Done
    /\ last.policy.kind = "namespace"
    /\ ret = Return(NilDecision, ErrRegexp)

\* C8: an evaluation under a cancelled context ends in an error, never in a
\* Decision.
C8_CancelledIsError ==
    /\ (last.index # 0 /\ ctx.cancelled) => Errors(last.out)
    /\ (Done /\ ctx.cancelled) => Errors(ret)

\* the values an explanation of policy p names: the rule, and what it compared
NamesRuleAndValues(p, d) ==
    LET text == Explanation(d)
    IN IF p.kind = "annotated"
       THEN /\ Contains(text, <<"a", "n", "n", "o", "t", "a", "t", "e", "d", " ", "w", "i", "t", "h">>)
            /\ Contains(text, Quoted(role))
            /\ Contains(text, Quoted(Resolve(PodRole(pod)).Name))
       ELSE /\ Contains(text, <<"n", "a", "m", "e", "s", "p", "a", "c", "e", " ", "p", "o", "l", "i", "c", "y">>)
            /\ \/ Contains(text, Quoted(PermittedAnnotation(namespace)))
               \/ PermittedAnnotation(namespace) = EmptyString /\ Contains(text, Quoted(TxtEmpty))
            /\ \/ Contains(text, Quoted(role))
               \/ Contains(text, Quoted(Resolve(role).ARN))

\* C9: an allowing Decision has the empty explanation; a non-allowing one has
\* a non-empty explanation that names the rule and the values compared.
C9_ExplanationMatchesDecision ==
    /\ \A d \in {last.out.decision, ret.decision} :
          /\ IsAllowed(d) => Explanation(d) = EmptyString
          /\ d.kind \in {"forbidden", "namespacePolicyForbidden"} =>
                Explanation(d) # EmptyString
    /\ Denies(last.out) => NamesRuleAndValues(last.policy, last.out.decision)
    /\ Denies(ret) => NamesRuleAndValues(last.policy, ret.decision)

\* C9 witness: the composite returned the denial of the annotation policy
C9_Witness ==
    /\ Done /\ Denies(ret)
    /\ ret.decision.kind = "forbidden"
    /\ last.policy.kind = "annotated"

====
